---- MODULE Spec2Model ----
(***************************************************************************)
(* Model of outcomes-import.go: a one-shot command-line client that lists  *)
(* importable GUIDs, starts an import, or queries a migration's status,    *)
(* and keeps its last-used parameters in $HOME/.outcomes-import.conf.      *)
(*                                                                         *)
(* Strings the program only compares for equality (api keys, guids,        *)
(* titles) are TLA+ strings.  Domains, which normalizeDomain inspects and  *)
(* rewrites character by character, are sequences of one-character         *)
(* strings.                                                                *)
(***************************************************************************)
EXTENDS Integers, Sequences, FiniteSets, TLC

VARIABLES
    cfgFile,     \* the config file on disk
    pc,          \* position of the current invocation
    runs,        \* invocations started so far
    flags,       \* the parsed command-line flags
    merged,      \* *apikey, *domain, *status after the merge with the config
    req,         \* the request value main builds and passes on
    guids,       \* importGuid's local guids: the decoded list
    guid,        \* importGuid's local guid (after title resolution)
    lastId,      \* the id of the last decoded status or import response
    current,     \* writeToFile's local: the re-read config
    sent,        \* HTTP requests sent, in order
    replies,     \* number of responses decoded successfully
    out,         \* lines printed on stdout, in order
    calls,       \* the operations main has dispatched to, in order
    exitCode,    \* -1 while running, 0 normal, 1 log.Fatal, 2 runtime panic
    writeFailed, \* ioutil.WriteFile returned an error in this invocation
    prev,        \* what the previous invocation did
    normIn,      \* input of normalizeDomain (pure-function specification)
    normOut,     \* its result
    normStage    \* how many times it has been applied

vars == <<cfgFile, pc, runs, flags, merged, req, guids, guid, lastId, current,
          sent, replies, out, calls, exitCode, writeFailed, prev, normIn,
          normOut, normStage>>

procVars == <<cfgFile, pc, runs, flags, merged, req, guids, guid, lastId,
              current, sent, replies, out, calls, exitCode, writeFailed, prev>>

normVars == <<normIn, normOut, normStage>>

---------------------------------------------------------------------------
(* Bounds *)

MaxLen == 3        \* longest enumerated body of a domain string
MaxRuns == 2       \* invocations in a row
MaxId == 2         \* largest migration id
MaxGuids == 2      \* longest list returned by the "available" endpoint

---------------------------------------------------------------------------
(* Strings as sequences of characters *)

HasPrefix(s, p) ==
    Len(s) >= Len(p) /\ SubSeq(s, 1, Len(p)) = p

HasSuffix(s, p) ==
    Len(s) >= Len(p) /\ SubSeq(s, Len(s) - Len(p) + 1, Len(s)) = p

TrimSuffix(s, p) ==
    IF HasSuffix(s, p) THEN SubSeq(s, 1, Len(s) - Len(p)) ELSE s

Slash == <<"/">>
Http == <<"h", "t", "t", "p">>
HttpsScheme == <<"h", "t", "t", "p", "s", ":", "/", "/">>
HttpScheme == <<"h", "t", "t", "p", ":", "/", "/">>
Com == <<"c", "o", "m">>
Localhost == <<"l", "o", "c", "a", "l", "h", "o", "s", "t">>
LocalhostUrl == <<"h", "t", "t", "p", ":", "/", "/", "l", "o", "c", "a", "l",
                  "h", "o", "s", "t", ":", "3", "0", "0", "0">>
InstructureCom == <<".", "i", "n", "s", "t", "r", "u", "c", "t", "u", "r", "e",
                    ".", "c", "o", "m">>

\* A mutant of normalizeDomain: the trailing slash is not stripped.
normalizeDomainNoTrim(domain) ==
    IF domain = Localhost
    THEN LocalhostUrl
    ELSE IF ~HasPrefix(domain, Http)
         THEN LET retval == HttpsScheme \o domain
              IN  IF ~HasSuffix(retval, Com) /\ ~HasSuffix(retval, Slash)
                  THEN retval \o InstructureCom
                  ELSE retval
         ELSE domain

\* A mutant of normalizeDomain: "https://" is prepended whatever the start.
normalizeDomainAlwaysPrefix(domain) ==
    IF domain = Localhost
    THEN LocalhostUrl
    ELSE LET r == HttpsScheme \o domain
             retval == IF ~HasSuffix(r, Com) /\ ~HasSuffix(r, Slash)
                       THEN r \o InstructureCom
                       ELSE r
         IN  TrimSuffix(retval, Slash)

normalizeDomain(domain) ==
    IF domain = Localhost
    THEN LocalhostUrl
    ELSE LET retval ==
                 IF ~HasPrefix(domain, Http)
                 THEN LET r == HttpsScheme \o domain
                      IN  IF ~HasSuffix(r, Com) /\ ~HasSuffix(r, Slash)
                          THEN r \o InstructureCom
                          ELSE r
                 ELSE domain
         IN  TrimSuffix(retval, Slash)

---------------------------------------------------------------------------
(* The pure-function specification: normalizeDomain applied, and applied   *)
(* again to its own result, on a bounded set of non-empty inputs.          *)

Chars == {"u", "/", "m"}

RECURSIVE SeqsUpTo(_)
SeqsUpTo(n) ==
    IF n = 0
    THEN {<<>>}
    ELSE LET shorter == SeqsUpTo(n - 1)
         IN  shorter \cup {Append(s, c) : s \in shorter, c \in Chars}

Prefixes == {<<>>, Http, HttpScheme, HttpsScheme}
Suffixes == {<<>>, Com, <<".", "c", "o", "m", "/">>}

NormInputs ==
    ({p \o b \o s : p \in Prefixes, b \in SeqsUpTo(MaxLen), s \in Suffixes}
        \cup {Localhost, Localhost \o Slash})
    \ {<<>>}

---------------------------------------------------------------------------
(* The config file and the values of one invocation *)

NoFile == [state |-> "absent", Apikey |-> "", MigrationId |-> 0, Domain |-> <<>>]
CorruptFile == [state |-> "corrupt", Apikey |-> "", MigrationId |-> 0, Domain |-> <<>>]
Unread == [state |-> "unread", Apikey |-> "", MigrationId |-> 0, Domain |-> <<>>]

\* type config, serialized by json.MarshalIndent and decoded by configFromFile
ConfigOf(apikey, domain, migrationId) ==
    [state |-> "ok", Apikey |-> apikey, MigrationId |-> migrationId,
     Domain |-> domain]

NoFlags ==
    [apikey |-> "", domain |-> <<>>, status |-> 0, available |-> FALSE,
     guid |-> ""]

NoPrev == [import |-> FALSE, m |-> 0, failed |-> FALSE]

FlagApikeys == {"", "k2"}
FlagDomains == {<<>>, <<"u", "/", "/">>}
FlagGuids == {"", "Math", "g2"}
FileApikeys == {"", "k1"}
FileDomains == {<<>>, <<"u", "/", "/">>}
Ids == 0..MaxId

FlagSets ==
    [apikey : FlagApikeys, domain : FlagDomains, status : Ids,
     available : BOOLEAN, guid : FlagGuids]

\* The file before the first invocation: absent, not valid JSON, or a config.
InitialFiles ==
    {NoFile, CorruptFile}
        \cup {ConfigOf(k, d, m) : k \in FileApikeys, d \in FileDomains, m \in Ids}

\* What the remote API can answer to the three requests.
ImportableGuids ==
    {[Title |-> "Math", Guid |-> "g1"], [Title |-> "Math", Guid |-> "g2"],
     [Title |-> "Sci", Guid |-> "g2"]}

\* The lists of at most n packages, no package listed twice.
RECURSIVE GuidLists(_)
GuidLists(n) ==
    IF n = 0
    THEN {<<>>}
    ELSE LET shorter == GuidLists(n - 1)
             longer == {Append(l, g) : l \in shorter, g \in ImportableGuids}
         IN  shorter
                 \cup {l \in longer :
                           \A i \in 1..(Len(l) - 1) : l[i] # l[Len(l)]}

Failures == {[kind |-> "neterr"], [kind |-> "decodeerr"]}
AvailableResponses ==
    Failures \cup {[kind |-> "ok", guids |-> l] : l \in GuidLists(MaxGuids)}
\* The lists printAvailable is given to print: none, and two packages.
PrintedResponses ==
    Failures
        \cup {[kind |-> "ok", guids |-> l] :
                  l \in {<<>>, <<[Title |-> "Math", Guid |-> "g1"],
                                 [Title |-> "Sci", Guid |-> "g2"]>>}}
IdResponses == Failures \cup {[kind |-> "ok", id |-> i] : i \in Ids}

AvailablePath == "/api/v1/global/outcomes_import/available"
ImportPath == "/api/v1/global/outcomes_import/"
StatusPath == "/api/v1/global/outcomes_import/migration_status/"

\* httpRequest: URL = domain followed by the endpoint, bearer header, body
HttpRequest(r, method, path, id, body) ==
    [Method |-> method, Domain |-> r.Domain, Path |-> path, Id |-> id,
     Body |-> body, Bearer |-> r.Apikey]

---------------------------------------------------------------------------
(* main's helpers *)

\* A mutant of mergeConfig: the stored value wins over the flag.
mergeConfigStoredWins(f, cf) ==
    IF cf.state = "ok"
    THEN [apikey |-> IF cf.Apikey = "" THEN f.apikey ELSE cf.Apikey,
          status |-> IF cf.MigrationId = 0 THEN f.status ELSE cf.MigrationId,
          domain |-> IF cf.Domain = <<>> THEN f.domain ELSE cf.Domain]
    ELSE [apikey |-> f.apikey, status |-> f.status, domain |-> f.domain]

\* main, lines 96-109: a zero-valued flag is replaced by the stored value
mergeConfig(f, cf) ==
    IF cf.state = "ok"
    THEN [apikey |-> IF f.apikey = "" THEN cf.Apikey ELSE f.apikey,
          status |-> IF f.status = 0 THEN cf.MigrationId ELSE f.status,
          domain |-> IF f.domain = <<>> THEN cf.Domain ELSE f.domain]
    ELSE [apikey |-> f.apikey, status |-> f.status, domain |-> f.domain]

\* verifyRequest: TRUE when it returns, FALSE when it ends the process
verifyRequest(r) == r.Apikey # "" /\ r.Domain # <<>>

\* A mutant of dispatch: -guid is looked at before -available.
dispatchGuidFirst(f, status) ==
    IF f.guid # "" THEN "importGuid"
    ELSE IF f.available THEN "printAvailable"
    ELSE IF status # 0 THEN "getStatus"
    ELSE "exited"

\* main, lines 115-123
dispatch(f, status) ==
    IF f.available THEN "printAvailable"
    ELSE IF f.guid # "" THEN "importGuid"
    ELSE IF status # 0 THEN "getStatus"
    ELSE "exited"

\* A mutant of resolveGuid: the last matching title wins.
resolveGuidLast(gs, g) ==
    LET hits == {i \in 1..Len(gs) : gs[i].Title = g}
    IN  IF hits = {} THEN g
        ELSE gs[CHOOSE i \in hits : \A j \in hits : j <= i].Guid

\* importGuid, lines 230-235: the loop with its break
RECURSIVE resolveFrom(_, _, _)
resolveFrom(gs, g, i) ==
    IF i > Len(gs) THEN g
    ELSE IF gs[i].Title = g THEN gs[i].Guid
    ELSE resolveFrom(gs, g, i + 1)

resolveGuid(gs, g) == resolveFrom(gs, g, 1)

\* writeToFile, lines 70-72 (cur is a config that was read)
retainApikey(c, cur) ==
    IF cur.Apikey = "" THEN [c EXCEPT !.Apikey = ""] ELSE c

\* One line printed on stdout: its fixed text and the values formatted into it.
Line(text, id, g, title) ==
    [text |-> text, id |-> id, guid |-> g, title |-> title]

NotFoundText == "The server returned an error.  Are you sure that migration ID exists?"
StatusText == "Migration status for migration '%d':"
ImportText == "Migration ID is %d"
AvailableText == "GUIDs available to import:"
GuidText == "%s - %s"

\* printImportableGuids
RECURSIVE guidLines(_)
guidLines(gs) ==
    IF gs = <<>>
    THEN <<>>
    ELSE <<Line(GuidText, 0, Head(gs).Guid, Head(gs).Title)>>
             \o guidLines(Tail(gs))

printImportableGuids(gs) ==
    <<Line(AvailableText, 0, "", "")>> \o guidLines(gs)

\* printMigrationStatus (the id is the only field of the status modelled)
printMigrationStatus(id) ==
    IF id = 0
    THEN <<Line(NotFoundText, 0, "", "")>>
    ELSE <<Line(StatusText, id, "", "")>>

\* printImportResults
printImportResults(m) == <<Line(ImportText, m, "", "")>>

---------------------------------------------------------------------------
(* The invocations *)

ProcReset ==
    /\ flags = NoFlags
    /\ merged = [apikey |-> "", domain |-> <<>>, status |-> 0]
    /\ req = [Apikey |-> "", Domain |-> <<>>]
    /\ guids = <<>>
    /\ guid = ""
    /\ lastId = -1
    /\ current = Unread
    /\ sent = <<>>
    /\ replies = 0
    /\ out = <<>>
    /\ calls = <<>>
    /\ exitCode = -1
    /\ writeFailed = FALSE

ProcIdle ==
    /\ cfgFile = NoFile
    /\ pc = "off"
    /\ runs = 0
    /\ prev = NoPrev
    /\ ProcReset

NormIdle ==
    /\ normIn = <<>>
    /\ normOut = <<>>
    /\ normStage = 0

Init ==
    /\ cfgFile \in InitialFiles
    /\ pc = "idle"
    /\ runs = 0
    /\ prev = NoPrev
    /\ ProcReset
    /\ NormIdle

\* log.Fatalln, and errAndExit: the process ends with status 1
Fatal ==
    /\ pc' = "exited"
    /\ exitCode' = 1

\* main up to the dispatch
Main(f) ==
    /\ pc = "idle"
    /\ runs < MaxRuns
    /\ runs' = runs + 1
    /\ flags' = f
    /\ IF cfgFile.state = "corrupt"
       THEN /\ Fatal
            /\ UNCHANGED <<merged, req>>
       ELSE /\ merged' = mergeConfig(f, cfgFile)
            /\ LET r == [Apikey |-> merged'.apikey, Domain |-> merged'.domain]
               IN  IF verifyRequest(r)
                   THEN /\ req' = [r EXCEPT !.Domain = normalizeDomain(r.Domain)]
                        /\ pc' = dispatch(f, merged'.status)
                        /\ exitCode' = IF pc' = "exited" THEN 1 ELSE -1
                   ELSE /\ req' = r
                        /\ Fatal
    /\ UNCHANGED <<cfgFile, guids, guid, lastId, current, sent, replies, out,
                   calls, writeFailed, prev, normVars>>

\* writeToFile on the config c; written says whether ioutil.WriteFile succeeds
WriteToFile(c, written) ==
    /\ current' = cfgFile
    /\ pc' = "exited"
    /\ IF cfgFile.state = "absent"
       THEN \* current is nil: current.Apikey panics
            /\ exitCode' = 2
            /\ UNCHANGED <<cfgFile, writeFailed>>
       ELSE /\ exitCode' = 0
            /\ IF written
               THEN /\ cfgFile' = retainApikey(c, cfgFile)
                    /\ UNCHANGED writeFailed
               ELSE \* the error ioutil.WriteFile returns is dropped
                    /\ writeFailed' = TRUE
                    /\ UNCHANGED cfgFile

\* A mutant of printAvailableConfig: the migration id is left at its zero value.
printAvailableConfigNoId(r, cf) == ConfigOf(r.Apikey, r.Domain, 0)

\* printAvailable, lines 172-176 (cf is the config configFromFile returns)
printAvailableConfig(r, cf) == ConfigOf(r.Apikey, r.Domain, cf.MigrationId)

printAvailable(resp, written) ==
    /\ pc = "printAvailable"
    /\ calls' = Append(calls, "printAvailable")
    /\ sent' = Append(sent, HttpRequest(req, "GET", AvailablePath, 0, <<>>))
    /\ IF resp.kind # "ok"
       THEN /\ Fatal
            /\ UNCHANGED <<cfgFile, current, replies, out, writeFailed>>
       ELSE /\ replies' = replies + 1
            /\ out' = out \o printImportableGuids(resp.guids)
            /\ IF cfgFile.state = "absent"
               THEN \* configFromFile() is nil: .MigrationId panics
                    /\ pc' = "exited"
                    /\ exitCode' = 2
                    /\ UNCHANGED <<cfgFile, current, writeFailed>>
               ELSE WriteToFile(printAvailableConfig(req, cfgFile), written)
    /\ UNCHANGED <<runs, flags, merged, req, guids, guid, lastId, prev,
                   normVars>>

\* importGuid up to the title resolution
importGuidAvailable(resp) ==
    /\ pc = "importGuid"
    /\ calls' = Append(calls, "importGuid")
    /\ sent' = Append(sent, HttpRequest(req, "GET", AvailablePath, 0, <<>>))
    /\ IF resp.kind # "ok"
       THEN /\ Fatal
            /\ UNCHANGED <<replies, guids, guid>>
       ELSE /\ replies' = replies + 1
            /\ guids' = resp.guids
            /\ guid' = resolveGuid(resp.guids, flags.guid)
            /\ pc' = "importPost"
            /\ UNCHANGED exitCode
    /\ UNCHANGED <<cfgFile, runs, flags, merged, req, lastId, current, out,
                   writeFailed, prev, normVars>>

\* importGuid from the POST on; its locals end with it
importGuidPost(resp, written) ==
    /\ pc = "importPost"
    /\ guids' = <<>>
    /\ guid' = ""
    /\ sent' = Append(sent,
                      HttpRequest(req, "POST", ImportPath, 0, <<"guid=", guid>>))
    /\ IF resp.kind # "ok"
       THEN /\ Fatal
            /\ UNCHANGED <<cfgFile, lastId, current, replies, out,
                           writeFailed>>
       ELSE /\ replies' = replies + 1
            /\ lastId' = resp.id
            /\ out' = out \o printImportResults(resp.id)
            /\ WriteToFile(ConfigOf(req.Apikey, req.Domain, resp.id), written)
    /\ UNCHANGED <<runs, flags, merged, req, calls, prev, normVars>>

getStatus(resp, written) ==
    /\ pc = "getStatus"
    /\ calls' = Append(calls, "getStatus")
    /\ sent' = Append(sent,
                      HttpRequest(req, "GET", StatusPath, merged.status, <<>>))
    /\ IF resp.kind # "ok"
       THEN /\ Fatal
            /\ UNCHANGED <<cfgFile, lastId, current, replies, out,
                           writeFailed>>
       ELSE /\ replies' = replies + 1
            /\ lastId' = resp.id
            /\ out' = out \o printMigrationStatus(resp.id)
            /\ WriteToFile(ConfigOf(req.Apikey, req.Domain, merged.status),
                           written)
    /\ UNCHANGED <<runs, flags, merged, req, guids, guid, prev, normVars>>

\* The process has ended; the operator runs the tool again.
NextInvocation ==
    /\ pc = "exited"
    /\ runs < MaxRuns
    /\ pc' = "idle"
    /\ prev' = IF calls = <<"importGuid">> /\ exitCode = 0
               THEN [import |-> TRUE, m |-> lastId, failed |-> writeFailed]
               ELSE NoPrev
    /\ flags' = NoFlags
    /\ merged' = [apikey |-> "", domain |-> <<>>, status |-> 0]
    /\ req' = [Apikey |-> "", Domain |-> <<>>]
    /\ guids' = <<>>
    /\ guid' = ""
    /\ lastId' = -1
    /\ current' = Unread
    /\ sent' = <<>>
    /\ replies' = 0
    /\ out' = <<>>
    /\ calls' = <<>>
    /\ exitCode' = -1
    /\ writeFailed' = FALSE
    /\ UNCHANGED <<cfgFile, runs, normVars>>

Next ==
    \/ \E f \in FlagSets : Main(f)
    \/ \E resp \in PrintedResponses, written \in BOOLEAN :
           printAvailable(resp, written)
    \/ \E resp \in AvailableResponses : importGuidAvailable(resp)
    \/ \E resp \in IdResponses, written \in BOOLEAN : importGuidPost(resp, written)
    \/ \E resp \in IdResponses, written \in BOOLEAN : getStatus(resp, written)
    \/ NextInvocation

Spec == Init /\ [][Next]_vars

NormInit ==
    /\ ProcIdle
    /\ normIn \in NormInputs
    /\ normOut = <<>>
    /\ normStage = 0

Normalize ==
    /\ normStage = 0
    /\ normOut' = <<normalizeDomain(normIn)>>
    /\ normStage' = 1
    /\ UNCHANGED <<normIn, procVars>>

Renormalize ==
    /\ normStage = 1
    /\ normOut' = Append(normOut, normalizeDomain(normOut[1]))
    /\ normStage' = 2
    /\ UNCHANGED <<normIn, procVars>>

NormNext == Normalize \/ Renormalize

NormSpec == NormInit /\ [][NormNext]_vars

---------------------------------------------------------------------------
(* Properties *)

Running == pc \notin {"idle", "off"}
Exited == pc = "exited"

\* The process got past verifyRequest (a corrupt file leaves merged empty).
Verified == Running /\ merged.apikey # "" /\ merged.domain # <<>>

DoubleSlash == <<"/", "/">>

\* C1: every invocation that reaches writeToFile with no prior file, or with
\* a prior file whose apikey is empty, completes the save and leaves a file
\* with an empty apikey; a non-empty key is stored only over a non-empty one.
C1_SecretRetention ==
    Exited /\ current.state # "unread" =>
        /\ (current.state = "absent" \/ current.Apikey = "") =>
               /\ exitCode = 0
               /\ cfgFile.state = "ok"
               /\ cfgFile.Apikey = ""
        /\ (cfgFile.state = "ok" /\ cfgFile.Apikey # "") => current.Apikey # ""

\* The value main uses for one field: the flag, else the stored value, else zero.
Effective(flag, zero, present, stored) ==
    IF flag # zero THEN flag ELSE IF present THEN stored ELSE zero

\* C2: before the invocation writes anything, each of api key, migration id
\* and domain is the flag when the flag is non-zero, otherwise the stored
\* value when a config file exists, otherwise zero.
C2_MergePrecedence ==
    Running /\ current.state = "unread" /\ cfgFile.state # "corrupt" =>
        LET present == cfgFile.state = "ok"
        IN  /\ merged.apikey
                   = Effective(flags.apikey, "", present, cfgFile.Apikey)
            /\ merged.status
                   = Effective(flags.status, 0, present, cfgFile.MigrationId)
            /\ merged.domain
                   = Effective(flags.domain, <<>>, present, cfgFile.Domain)
            /\ req.Apikey = merged.apikey
            /\ \A i \in 1..Len(sent) :
                   /\ sent[i].Bearer = merged.apikey
                   /\ sent[i].Path = StatusPath => sent[i].Id = merged.status

\* C2 witness: a flag overrides a stored key while the stored migration id
\* stands in for the absent -status flag.
C2_Witness ==
    /\ pc = "getStatus"
    /\ cfgFile.state = "ok"
    /\ flags.apikey # "" /\ cfgFile.Apikey # "" /\ merged.apikey = flags.apikey
    /\ flags.status = 0 /\ merged.status = cfgFile.MigrationId
    /\ flags.domain = <<>> /\ merged.domain = cfgFile.Domain

\* The operation the flags select.
Chosen ==
    IF flags.available THEN "printAvailable"
    ELSE IF flags.guid # "" THEN "importGuid"
    ELSE IF merged.status # 0 THEN "getStatus"
    ELSE "none"

PathsOf(op) ==
    IF op = "printAvailable" THEN {AvailablePath}
    ELSE IF op = "importGuid" THEN {AvailablePath, ImportPath}
    ELSE IF op = "getStatus" THEN {StatusPath}
    ELSE {}

\* C3: a verified invocation runs at most one operation, the one selected in
\* the order -available, -guid, merged migration id; when none is selected
\* it ends fatally with no request sent and no config written.
C3_Dispatch ==
    Verified =>
        /\ Len(calls) <= 1
        /\ \A i \in 1..Len(calls) : calls[i] = Chosen
        /\ \A i \in 1..Len(sent) : sent[i].Path \in PathsOf(Chosen)
        /\ pc = "printAvailable" => Chosen = "printAvailable"
        /\ pc \in {"importGuid", "importPost"} => Chosen = "importGuid"
        /\ pc = "getStatus" => Chosen = "getStatus"
        /\ Chosen = "none" =>
               /\ Exited
               /\ exitCode = 1
               /\ sent = <<>>
               /\ calls = <<>>
               /\ current.state = "unread"
               /\ ~writeFailed

\* C3 witness: -available given together with -guid and -status; only the
\* listing ran.
C3_Witness ==
    /\ Verified
    /\ Exited
    /\ flags.available /\ flags.guid # "" /\ flags.status # 0
    /\ calls = <<"printAvailable">>
    /\ exitCode = 0

\* The fatal case of C3 is reached too.
C3_NoneWitness == Verified /\ Chosen = "none" /\ Exited

\* The guid of the first entry titled g, or g itself.
FirstMatch(gs, g) ==
    LET hits == {i \in 1..Len(gs) : gs[i].Title = g}
    IN  IF hits = {}
        THEN g
        ELSE gs[CHOOSE i \in hits : \A j \in hits : i <= j].Guid

\* C4: in an import the POST is the second request, sent after the GET of
\* the available list was answered and decoded, and its body is guid=<g>
\* with g the guid of the first fetched entry whose title is the -guid
\* value, or the -guid value itself when no title matches.
C4_ImportOrder ==
    /\ [](\A i \in 1..Len(sent) :
              sent[i].Method = "POST" =>
                  /\ i = 2
                  /\ sent[i].Path = ImportPath
                  /\ sent[1].Method = "GET"
                  /\ sent[1].Path = AvailablePath
                  /\ replies >= 1)
    /\ [][pc = "importPost" /\ pc' # "importPost" =>
              /\ replies = 1
              /\ Len(sent') = 2
              /\ sent'[2].Method = "POST"
              /\ sent'[2].Body = <<"guid=", FirstMatch(guids, flags.guid)>>]_vars

\* C4 witness: -guid Math was resolved to the guid of an entry titled Math,
\* and that guid was posted after the GET.
C4_Witness ==
    /\ Len(sent) = 2
    /\ flags.guid = "Math"
    /\ sent[2].Body = <<"guid=", "g1">>

\* C5: a status query for n whose decoded response has id 0 prints the
\* "server returned an error" line, exits 0, and leaves migration_id = n
\* in the config file.
C5_SoftNotFound ==
    Exited /\ calls = <<"getStatus">> /\ lastId = 0 =>
        /\ out = <<Line(NotFoundText, 0, "", "")>>
        /\ exitCode = 0
        /\ cfgFile.state = "ok"
        /\ cfgFile.MigrationId = merged.status

\* C6: an invocation whose config write failed ends with a non-zero status.
C6_WriteFailureFatal ==
    Exited /\ writeFailed => exitCode # 0

\* C7 as claimed: the result of normalizeDomain never ends in "/".
C7_NoTrailingSlash ==
    normStage = 1 => ~HasSuffix(normOut[1], Slash)

\* C7 as amended: the result does not end in "/" unless the input ends in
\* "//" or is "/" itself, and does end in "/" in those cases.
C7_OneSlashStripped ==
    normStage = 1 =>
        /\ (~HasSuffix(normIn, DoubleSlash) /\ normIn # Slash)
               => ~HasSuffix(normOut[1], Slash)
        /\ (HasSuffix(normIn, DoubleSlash) \/ normIn = Slash)
               => HasSuffix(normOut[1], Slash)

\* C7 witness: an input ending in one "/" on the path that prepends https://.
C7_Witness ==
    /\ normStage = 1
    /\ HasSuffix(normIn, Slash)
    /\ ~HasSuffix(normIn, DoubleSlash)
    /\ ~HasPrefix(normIn, Http)
    /\ normOut[1] = HttpsScheme \o SubSeq(normIn, 1, Len(normIn) - 1)

\* C10 as claimed: normalizing a normalized domain changes nothing.
C10_Idempotent ==
    normStage = 2 => normOut[2] = normOut[1]

\* C10 as amended: normalizing twice equals normalizing once for every input
\* that neither ends in "//" nor is "/" itself.
C10_IdempotentOneSlash ==
    normStage = 2 /\ ~HasSuffix(normIn, DoubleSlash) /\ normIn # Slash =>
        normOut[2] = normOut[1]

\* C10 witness: a short name, expanded once and left alone the second time.
C10_Witness ==
    /\ normStage = 2
    /\ normIn = <<"u">>
    /\ normOut[1] = HttpsScheme \o <<"u">> \o InstructureCom
    /\ normOut[2] = normOut[1]

\* C8: after an import that completed with the server returning m # 0, the
\* stored migration_id is m, and a following invocation without -available,
\* -guid and -status asks for the status of m.
C8_ImportDrivesStatus ==
    prev.import /\ prev.m # 0 =>
        /\ pc = "idle" => cfgFile.state = "ok" /\ cfgFile.MigrationId = prev.m
        /\ (Running /\ ~flags.available /\ flags.guid = "" /\ flags.status = 0)
               => /\ \A i \in 1..Len(sent) :
                         sent[i].Path = StatusPath /\ sent[i].Id = prev.m
                  /\ Verified /\ Exited => Len(sent) = 1

\* C8 with the write known to have succeeded (not the claim: a cross-check
\* that the dropped write error is the only cause of the violation).
C8_WhenWritten ==
    ~prev.failed => C8_ImportDrivesStatus

\* C9: a list-available step on an existing config leaves a config with the
\* same migration_id, whatever -status was given.
C9_AvailableKeepsMigrationId ==
    [][pc = "printAvailable" /\ cfgFile.state = "ok" =>
           /\ cfgFile'.state = "ok"
           /\ cfgFile'.MigrationId = cfgFile.MigrationId]_vars

\* C9 witness: a listing given -status n was written over a config whose
\* migration_id is another, non-zero id, and that id is still stored.
C9_Witness ==
    /\ Exited
    /\ calls = <<"printAvailable">>
    /\ exitCode = 0
    /\ ~writeFailed
    /\ current.state = "ok"
    /\ flags.status # 0
    /\ current.MigrationId # 0
    /\ current.MigrationId # flags.status
    /\ cfgFile.MigrationId = current.MigrationId
    /\ cfgFile.Domain # current.Domain

====
